---- MODULE Spec2Model ----
(***************************************************************************)
(* A model of goblin's Mach-O header decoding (src/mach/header.rs) and of  *)
(* its byte-offset string table (src/strtab.rs).                           *)
(*                                                                         *)
(* Integers wider than 31 bits are kept as tuples of bytes, most           *)
(* significant byte first: a u32 is a 4-tuple and a u64 an 8-tuple, so     *)
(* 0xfeedface is <<254, 237, 250, 206>>.  A byte buffer is a sequence of   *)
(* values in 0..255; Rust's 0-based offset o is position o + 1 here.       *)
(***************************************************************************)
EXTENDS Integers, Sequences, FiniteSets, TLC

VARIABLES
    target_endian,  \* cfg(target_endian) of the build: "little" or "big"
    peek_endian,    \* byte order mach::peek reads the magic with
    bytes,          \* the buffer handed to Header::try_from_ctx
    offset,         \* the offset handed to Header::try_from_ctx
    res,            \* the result of try_from_ctx, NoResult before the call
    hdr,            \* the Header the accessors are called on, NoHeader if none
    ctxres,         \* the result of Header::ctx(), NoCtx before the call
    sbytes,         \* Strtab.bytes, the backing region
    delim,          \* Strtab.delim
    goff,           \* the offset of the last Strtab::get call, -1 before any
    gres,           \* the result of the last Strtab::get call
    tv_pc,          \* position of to_vec: "idle", "loop", "done", "err"
    tv_i,           \* to_vec's scan index i
    tv_strings,     \* to_vec's accumulating vector
    tv_res,         \* what to_vec returned
    tv_iters,       \* number of loop iterations to_vec has run
    flag,           \* the argument of flag_to_str
    flagstr         \* the result of flag_to_str, NoStr before the call

header_vars == <<target_endian, peek_endian, bytes, offset, res, hdr, ctxres>>
strtab_vars == <<sbytes, delim, goff, gres, tv_pc, tv_i, tv_strings, tv_res, tv_iters>>
flag_vars == <<flag, flagstr>>
vars == <<target_endian, peek_endian, bytes, offset, res, hdr, ctxres,
          sbytes, delim, goff, gres, tv_pc, tv_i, tv_strings, tv_res, tv_iters,
          flag, flagstr>>

(***************************************************************************)
(* Bounds of the model.                                                    *)
(***************************************************************************)
MaxLen == 38
MaxOffset == 5
MaxFill == 1

(***************************************************************************)
(* src/mach/header.rs: magic constants and fixed sizes.                    *)
(***************************************************************************)
MH_MAGIC == <<254, 237, 250, 206>>
MH_CIGAM == <<206, 250, 237, 254>>
MH_MAGIC_64 == <<254, 237, 250, 207>>
MH_CIGAM_64 == <<207, 250, 237, 254>>

SIZEOF_HEADER_32 == 28
SIZEOF_HEADER_64 == 32

U32Zero == <<0, 0, 0, 0>>

\* container::Container is "Little", the narrow (32-bit) class, or "Big", the
\* wide one.

\* scroll::Endian::from(bool): true is LE, false is BE.
EndianFrom(is_lsb) == IF is_lsb THEN "LE" ELSE "BE"

\* `x as u64` / `x as usize` of a u32: zero extension.
as_u64(x) == <<0, 0, 0, 0>> \o x

(***************************************************************************)
(* scroll reads, as header.rs uses them.  Each fails (a scroll error) when *)
(* the read would pass the end of the buffer.                              *)
(***************************************************************************)
InRange(b, o, n) == o >= 0 /\ o + n <= Len(b)

pread_u32(b, o, endian) ==
    IF endian = "BE"
    THEN <<b[o + 1], b[o + 2], b[o + 3], b[o + 4]>>
    ELSE <<b[o + 4], b[o + 3], b[o + 2], b[o + 1]>>

pread_u8(b, o) == b[o + 1]

\* mach::peek: the 4-byte magic at the offset, without advancing.
peek(b, o) ==
    IF InRange(b, o, 4)
    THEN [ok |-> TRUE, magic |-> pread_u32(b, o, peek_endian)]
    ELSE [ok |-> FALSE, magic |-> U32Zero]

\* derive(Pread) for Header32: the fields in declaration order, 28 bytes.
pread_Header32(b, o, le) ==
    IF ~InRange(b, o, SIZEOF_HEADER_32)
    THEN [ok |-> FALSE]
    ELSE [ok |-> TRUE,
          nread |-> 4 + 4 + 1 + 1 + 1 + 1 + 4 + 4 + 4 + 4,
          magic |-> pread_u32(b, o, le),
          cputype |-> pread_u32(b, o + 4, le),
          padding1 |-> pread_u8(b, o + 8),
          padding2 |-> pread_u8(b, o + 9),
          caps |-> pread_u8(b, o + 10),
          cpusubtype |-> pread_u8(b, o + 11),
          filetype |-> pread_u32(b, o + 12, le),
          ncmds |-> pread_u32(b, o + 16, le),
          sizeofcmds |-> pread_u32(b, o + 20, le),
          flags |-> pread_u32(b, o + 24, le)]

\* derive(Pread) for Header64: the fields in declaration order, 32 bytes.
pread_Header64(b, o, le) ==
    IF ~InRange(b, o, SIZEOF_HEADER_64)
    THEN [ok |-> FALSE]
    ELSE [ok |-> TRUE,
          nread |-> 4 + 4 + 1 + 1 + 1 + 1 + 4 + 4 + 4 + 4 + 4,
          magic |-> pread_u32(b, o, le),
          cputype |-> pread_u32(b, o + 4, le),
          cpusubtype |-> pread_u8(b, o + 8),
          padding1 |-> pread_u8(b, o + 9),
          padding2 |-> pread_u8(b, o + 10),
          caps |-> pread_u8(b, o + 11),
          filetype |-> pread_u32(b, o + 12, le),
          ncmds |-> pread_u32(b, o + 16, le),
          sizeofcmds |-> pread_u32(b, o + 20, le),
          flags |-> pread_u32(b, o + 24, le),
          reserved |-> pread_u32(b, o + 28, le)]

\* impl From<Header32> for Header
FromHeader32(h) ==
    [magic |-> h.magic, cputype |-> h.cputype, cpusubtype |-> h.cpusubtype,
     padding1 |-> h.padding1, padding2 |-> h.padding2, caps |-> h.caps,
     filetype |-> h.filetype, ncmds |-> as_u64(h.ncmds),
     sizeofcmds |-> h.sizeofcmds, flags |-> h.flags, reserved |-> U32Zero]

\* impl From<Header64> for Header
FromHeader64(h) ==
    [magic |-> h.magic, cputype |-> h.cputype, cpusubtype |-> h.cpusubtype,
     padding1 |-> h.padding1, padding2 |-> h.padding2, caps |-> h.caps,
     filetype |-> h.filetype, ncmds |-> as_u64(h.ncmds),
     sizeofcmds |-> h.sizeofcmds, flags |-> h.flags, reserved |-> h.reserved]

\* derive(Default) for Header: every field zero.
DefaultHeader ==
    [magic |-> U32Zero, cputype |-> U32Zero, cpusubtype |-> 0,
     padding1 |-> 0, padding2 |-> 0, caps |-> 0,
     filetype |-> U32Zero, ncmds |-> as_u64(U32Zero),
     sizeofcmds |-> U32Zero, flags |-> U32Zero, reserved |-> U32Zero]

NoHeader == [magic |-> <<>>]

(***************************************************************************)
(* impl Header                                                             *)
(***************************************************************************)
is_little_endian(h) ==
    IF target_endian = "big"
    THEN h.magic = MH_CIGAM \/ h.magic = MH_CIGAM_64
    ELSE h.magic = MH_MAGIC \/ h.magic = MH_MAGIC_64

\* container() that forgets the byte-swapped wide magic
container_native_only(h) ==
    IF h.magic = MH_MAGIC_64 THEN "Big" ELSE "Little"

container(h) ==
    IF h.magic = MH_MAGIC_64 \/ h.magic = MH_CIGAM_64 THEN "Big" ELSE "Little"

size_with(c) ==
    IF c = "Little" THEN SIZEOF_HEADER_32 ELSE SIZEOF_HEADER_64

size(h) == size_with(container(h))

ctx(h) ==
    LET is_lsb == is_little_endian(h)
        endianness == EndianFrom(is_lsb)
        c == container(h)
    IN  [kind |-> "Ok", container |-> c, endianness |-> endianness]

NoCtx == [kind |-> "none", container |-> "none", endianness |-> "none"]

(***************************************************************************)
(* impl TryFromCtx for Header                                              *)
(***************************************************************************)
\* the size check with <= for <: a buffer of exactly the fixed size is refused
too_small_inclusive(sz) == sz <= SIZEOF_HEADER_32 \/ sz <= SIZEOF_HEADER_64

\* the size check of line 384
too_small(sz) == sz < SIZEOF_HEADER_32 \/ sz < SIZEOF_HEADER_64

\* the match arm of line 390
is_magic(magic) == magic \in {MH_CIGAM_64, MH_CIGAM, MH_MAGIC_64, MH_MAGIC}

\* line 391
magic_is_lsb(magic) == magic = MH_CIGAM \/ magic = MH_CIGAM_64

\* line 394
magic_container(magic) ==
    IF magic = MH_MAGIC_64 \/ magic = MH_CIGAM_64 THEN "Big" ELSE "Little"

\* `magic as i32 as u64`: the widening extends the sign bit
BadMagic_sign_extended(magic) ==
    (IF magic[1] >= 128 THEN <<255, 255, 255, 255>> ELSE <<0, 0, 0, 0>>) \o magic

\* line 405
BadMagic(magic) == as_u64(magic)

Failure(kind, inspected, peeked, magic64) ==
    [kind |-> kind, inspected |-> inspected, peeked |-> peeked,
     magic64 |-> magic64, header |-> NoHeader, le |-> "none",
     container |-> "none", nread |-> 0]

NoResult == Failure("none", FALSE, <<>>, <<>>)

try_from_ctx(b, o) ==
    LET sz == Len(b) IN
    IF too_small(sz)
    THEN Failure("Malformed", FALSE, <<>>, <<>>)
    ELSE
      LET p == peek(b, o) IN
      IF ~p.ok
      THEN Failure("Scroll", TRUE, <<>>, <<>>)
      ELSE
        LET magic == p.magic IN
        IF is_magic(magic)
        THEN
          LET is_lsb == magic_is_lsb(magic)
              le == EndianFrom(is_lsb)
              c == magic_container(magic)
              raw == IF c = "Little" THEN pread_Header32(b, o, le)
                                     ELSE pread_Header64(b, o, le)
          IN  IF ~raw.ok
              THEN Failure("Scroll", TRUE, magic, <<>>)
              ELSE [kind |-> "Ok", inspected |-> TRUE, peeked |-> magic,
                    magic64 |-> <<>>,
                    header |-> IF c = "Little" THEN FromHeader32(raw)
                                               ELSE FromHeader64(raw),
                    le |-> le, container |-> c, nread |-> raw.nread]
        ELSE Failure("BadMagic", TRUE, magic, BadMagic(magic))

(***************************************************************************)
(* Inputs of the header operations.                                        *)
(***************************************************************************)
JunkMagics == {U32Zero, <<202, 254, 186, 190>>, <<254, 237, 250, 205>>}
MagicPatterns == {MH_MAGIC, MH_CIGAM, MH_MAGIC_64, MH_CIGAM_64} \cup JunkMagics

\* A buffer of len bytes with the 4-byte pattern at offset off and every
\* other byte i (1-based) set to (i * k) % 256.
MkBuffer(len, off, pat, k) ==
    [i \in 1..len |-> IF i > off /\ i <= off + 4 THEN pat[i - off]
                      ELSE (i * k) % 256]

HeaderIdle ==
    /\ target_endian = "little" /\ peek_endian = "BE"
    /\ bytes = <<>> /\ offset = 0
    /\ res = NoResult /\ hdr = NoHeader /\ ctxres = NoCtx

HeaderInit ==
    /\ target_endian \in {"little", "big"}
    /\ peek_endian \in {"BE", "LE"}
    /\ \E len \in 0..MaxLen, pat \in MagicPatterns, k \in 0..MaxFill :
          \E off \in 0..MaxOffset :
             /\ bytes = MkBuffer(len, off, pat, k)
             /\ offset = off
    /\ res = NoResult /\ hdr = NoHeader /\ ctxres = NoCtx

\* Header::try_from_ctx(bytes, (offset, _))
Decode ==
    /\ res = NoResult /\ hdr = NoHeader
    /\ res' = try_from_ctx(bytes, offset)
    /\ hdr' = res'.header
    /\ UNCHANGED <<target_endian, peek_endian, bytes, offset, ctxres>>

\* Header::default(), a header that did not come from the decoder
Default ==
    /\ res = NoResult /\ hdr = NoHeader
    /\ hdr' = DefaultHeader
    /\ UNCHANGED <<target_endian, peek_endian, bytes, offset, res, ctxres>>

\* Header::ctx()
Ctx ==
    /\ hdr # NoHeader /\ ctxres = NoCtx
    /\ ctxres' = ctx(hdr)
    /\ UNCHANGED <<target_endian, peek_endian, bytes, offset, res, hdr>>

(***************************************************************************)
(* src/strtab.rs                                                           *)
(***************************************************************************)
MaxRegion == 4

\* 0 and 10 are the delimiters in use, 97 and 98 are text, 255 is a byte that
\* occurs in no valid UTF-8 text.
Alphabet == {0, 10, 97, 98, 255}
Delims == {0, 10}

\* The regions of the tests of strtab.rs (lines 82, 91, 100, 109) and
\* "printf\0memmove".
Test_no_final_null ==
    <<0, 112, 114, 105, 110, 116, 102, 0, 109, 101, 109, 109, 111, 118, 101,
      0, 98, 117, 115, 116, 97>>
Test_no_first_null == Tail(Test_no_final_null)
Test_final_null == Test_no_final_null \o <<0>>
Test_newline == [k \in 1..Len(Test_final_null) |->
                   IF Test_final_null[k] = 0 THEN 10 ELSE Test_final_null[k]]
Printf_memmove == SubSeq(Test_no_final_null, 2, 15)

TestVectors ==
    {Test_no_final_null, Test_no_first_null, Test_final_null, Test_newline,
     Printf_memmove}

Regions == UNION {[1..n -> Alphabet] : n \in 0..MaxRegion} \cup TestVectors

\* str::from_utf8 on the bytes the model draws: ASCII bytes are text, and
\* 255 makes the slice invalid.
from_utf8_ok(s) == \A k \in 1..Len(s) : s[k] < 128

\* a scan that stops one past the delimiter, so the string keeps it
delimiter_end_inclusive(b, o, d) ==
    IF \E q \in (o + 1)..Len(b) : b[q] = d
    THEN 1 + CHOOSE q \in (o + 1)..Len(b) :
                /\ b[q] = d
                /\ \A r \in (o + 1)..(q - 1) : b[r] # d
    ELSE Len(b) + 1

\* The 1-based position of the first delimiter after 0-based offset o, or
\* Len(b) + 1 when there is none.
delimiter_end(b, o, d) ==
    IF \E q \in (o + 1)..Len(b) : b[q] = d
    THEN CHOOSE q \in (o + 1)..Len(b) :
            /\ b[q] = d
            /\ \A r \in (o + 1)..(q - 1) : b[r] # d
    ELSE Len(b) + 1

\* the bounds check with > for >=: an offset equal to the length passes
bad_offset_exclusive(o, len) == o > len

\* pread_with: an offset at or past the end of the bytes is a bad offset
bad_offset(o, len) == o >= len

GetError(kind) == [ok |-> FALSE, err |-> kind, str |-> <<>>, reads |-> {}]

\* bytes.pread_with::<&str>(offset, delim): an offset at or past the end is a
\* bad offset; otherwise the bytes up to the first delimiter, or up to the end
\* of the region when there is none, which must be valid UTF-8.  reads is the
\* set of 0-based indices the scan looks at.
get_str(o, b, d) ==
    IF bad_offset(o, Len(b))
    THEN GetError("BadOffset")
    ELSE
      LET e == delimiter_end(b, o, d)
          s == SubSeq(b, o + 1, e - 1)
          last == IF e <= Len(b) THEN e - 1 ELSE Len(b) - 1
      IN  IF from_utf8_ok(s)
          THEN [ok |-> TRUE, err |-> "none", str |-> s, reads |-> o..last]
          ELSE [ok |-> FALSE, err |-> "BadInput", str |-> <<>>,
                reads |-> o..last]

\* Strtab::get
get(o) == get_str(o, sbytes, delim)

NoGet == GetError("none")
NoVec == [kind |-> "none", strings |-> <<>>]

\* the loop condition with <= for <
tv_continue_inclusive(i, len) == i <= len

\* to_vec: while i < len
tv_continue(i, len) == i < len

\* the index update that forgets to step over the delimiter
tv_advance_no_skip(i, string) == i + Len(string)

\* to_vec: i = i + string.len() + 1
tv_advance(i, string) == i + Len(string) + 1

StrtabIdle ==
    /\ sbytes = <<>> /\ delim = 0 /\ goff = -1 /\ gres = NoGet
    /\ tv_pc = "idle" /\ tv_i = 0 /\ tv_strings = <<>> /\ tv_res = NoVec
    /\ tv_iters = 0

\* Strtab::new(bytes, delim)
StrtabInit ==
    /\ sbytes \in Regions /\ delim \in Delims
    /\ goff = -1 /\ gres = NoGet
    /\ tv_pc = "idle" /\ tv_i = 0 /\ tv_strings = <<>> /\ tv_res = NoVec
    /\ tv_iters = 0

\* Strtab::get(offset)
Get ==
    /\ tv_pc = "idle"
    /\ \E o \in 0..(Len(sbytes) + 1) :
          /\ goff' = o
          /\ gres' = get(o)
    /\ UNCHANGED <<sbytes, delim, tv_pc, tv_i, tv_strings, tv_res, tv_iters>>

\* to_vec, lines 43-45: len, the empty vector, i = 0
ToVecStart ==
    /\ tv_pc = "idle" /\ goff = -1
    /\ tv_pc' = "loop" /\ tv_i' = 0 /\ tv_strings' = <<>>
    /\ UNCHANGED <<sbytes, delim, goff, gres, tv_res, tv_iters>>

\* to_vec, lines 46-50: one iteration of the while loop
ToVecStep ==
    /\ tv_pc = "loop" /\ tv_continue(tv_i, Len(sbytes))
    /\ LET r == get(tv_i) IN
         IF r.ok
         THEN /\ tv_i' = tv_advance(tv_i, r.str)
              /\ tv_strings' = Append(tv_strings, r.str)
              /\ tv_pc' = "loop"
              /\ tv_res' = tv_res
         ELSE /\ tv_pc' = "err"
              /\ tv_res' = [kind |-> "Err", strings |-> <<>>]
              /\ tv_strings' = <<>>
              /\ tv_i' = tv_i
    /\ tv_iters' = tv_iters + 1
    /\ UNCHANGED <<sbytes, delim, goff, gres>>

\* to_vec, line 51: Ok(strings)
ToVecReturn ==
    /\ tv_pc = "loop" /\ ~tv_continue(tv_i, Len(sbytes))
    /\ tv_pc' = "done"
    /\ tv_res' = [kind |-> "Ok", strings |-> tv_strings]
    /\ UNCHANGED <<sbytes, delim, goff, gres, tv_i, tv_strings, tv_iters>>

(***************************************************************************)
(* src/mach/header.rs: the flags of the mach_header and flag_to_str        *)
(***************************************************************************)
MaxBit == 28

MH_NOUNDEFS == 1
MH_INCRLINK == 2
MH_DYLDLINK == 4
MH_BINDATLOAD == 8
MH_PREBOUND == 16
MH_SPLIT_SEGS == 32
MH_LAZY_INIT == 64
MH_TWOLEVEL == 128
MH_FORCE_FLAT == 256
MH_NOMULTIDEFS == 512
MH_NOFIXPREBINDING == 1024
MH_PREBINDABLE == 2048
MH_ALLMODSBOUND == 4096
MH_SUBSECTIONS_VIA_SYMBOLS == 8192
MH_CANONICAL == 16384
MH_WEAK_DEFINES == 32768
MH_BINDS_TO_WEAK == 65536
MH_ALLOW_STACK_EXECUTION == 131072
MH_ROOT_SAFE == 262144
MH_SETUID_SAFE == 524288
MH_NO_REEXPORTED_DYLIBS == 1048576
MH_PIE == 2097152
MH_DEAD_STRIPPABLE_DYLIB == 4194304
MH_HAS_TLV_DESCRIPTORS == 8388608
MH_NO_HEAP_EXECUTION == 16777216
MH_APP_EXTENSION_SAFE == 33554432

flag_to_str(f) ==
    CASE f = MH_NOUNDEFS -> "MH_NOUNDEFS"
      [] f = MH_INCRLINK -> "MH_INCRLINK"
      [] f = MH_DYLDLINK -> "MH_DYLDLINK"
      [] f = MH_BINDATLOAD -> "MH_BINDATLOAD"
      [] f = MH_PREBOUND -> "MH_PREBOUND"
      [] f = MH_SPLIT_SEGS -> "MH_SPLIT_SEGS"
      [] f = MH_LAZY_INIT -> "MH_LAZY_INIT"
      [] f = MH_TWOLEVEL -> "MH_TWOLEVEL"
      [] f = MH_FORCE_FLAT -> "MH_FORCE_FLAT"
      [] f = MH_NOMULTIDEFS -> "MH_NOMULTIDEFS"
      [] f = MH_NOFIXPREBINDING -> "MH_NOFIXPREBINDING"
      [] f = MH_PREBINDABLE -> "MH_PREBINDABLE "
      [] f = MH_ALLMODSBOUND -> "MH_ALLMODSBOUND"
      [] f = MH_SUBSECTIONS_VIA_SYMBOLS -> "MH_SUBSECTIONS_VIA_SYMBOLS"
      [] f = MH_CANONICAL -> "MH_CANONICAL"
      [] f = MH_WEAK_DEFINES -> "MH_WEAK_DEFINES"
      [] f = MH_BINDS_TO_WEAK -> "MH_BINDS_TO_WEAK"
      [] f = MH_ALLOW_STACK_EXECUTION -> "MH_ALLOW_STACK_EXECUTION"
      [] f = MH_ROOT_SAFE -> "MH_ROOT_SAFE"
      [] f = MH_SETUID_SAFE -> "MH_SETUID_SAFE"
      [] f = MH_NO_REEXPORTED_DYLIBS -> "MH_NO_REEXPORTED_DYLIBS"
      [] f = MH_PIE -> "MH_PIE"
      [] f = MH_DEAD_STRIPPABLE_DYLIB -> "MH_DEAD_STRIPPABLE_DYLIB"
      [] f = MH_HAS_TLV_DESCRIPTORS -> "MH_HAS_TLV_DESCRIPTORS"
      [] f = MH_NO_HEAP_EXECUTION -> "MH_NO_HEAP_EXECUTION"
      [] f = MH_APP_EXTENSION_SAFE -> "MH_APP_EXTENSION_SAFE"
      [] OTHER -> "UNKNOWN FLAG"

NoStr == ""

\* The u32 values flag_to_str is applied to: 0, every single bit up to
\* MaxBit, every pair of bits, and every run of low bits.
FlagInputs ==
    {0} \cup {2 ^ k : k \in 0..MaxBit}
        \cup {2 ^ p[1] + 2 ^ p[2] :
                 p \in {q \in (0..MaxBit) \X (0..MaxBit) : q[1] < q[2]}}
        \cup {2 ^ k - 1 : k \in 0..MaxBit}

FlagIdle == flag = 0 /\ flagstr = NoStr

FlagInit == flag \in FlagInputs /\ flagstr = NoStr

FlagToStr ==
    /\ flagstr = NoStr
    /\ flagstr' = flag_to_str(flag)
    /\ UNCHANGED flag

(***************************************************************************)
(* Specifications: one per component; the other components stay idle.      *)
(***************************************************************************)
Init == HeaderInit /\ StrtabIdle /\ FlagIdle

Next ==
    \/ Decode /\ UNCHANGED <<strtab_vars, flag_vars>>
    \/ Default /\ UNCHANGED <<strtab_vars, flag_vars>>
    \/ Ctx /\ UNCHANGED <<strtab_vars, flag_vars>>

Spec == Init /\ [][Next]_vars

StrtabSpecInit == HeaderIdle /\ StrtabInit /\ FlagIdle

StrtabNext ==
    \/ Get /\ UNCHANGED <<header_vars, flag_vars>>
    \/ ToVecStart /\ UNCHANGED <<header_vars, flag_vars>>
    \/ ToVecStep /\ UNCHANGED <<header_vars, flag_vars>>
    \/ ToVecReturn /\ UNCHANGED <<header_vars, flag_vars>>

SpecStrtab == StrtabSpecInit /\ [][StrtabNext]_vars

\* to_vec is straight-line sequential code: once called, its loop body and
\* its return run whenever they can.
SpecStrtabFair ==
    /\ StrtabSpecInit /\ [][StrtabNext]_vars
    /\ WF_vars(ToVecStep /\ UNCHANGED <<header_vars, flag_vars>>)
    /\ WF_vars(ToVecReturn /\ UNCHANGED <<header_vars, flag_vars>>)

FlagSpecInit == HeaderIdle /\ StrtabIdle /\ FlagInit

FlagNext == FlagToStr /\ UNCHANGED <<header_vars, strtab_vars>>

SpecFlags == FlagSpecInit /\ [][FlagNext]_vars

(***************************************************************************)
(* Properties of Header decoding, checked under Spec.                      *)
(***************************************************************************)
NarrowMagics == {MH_MAGIC, MH_CIGAM}
WideMagics == {MH_MAGIC_64, MH_CIGAM_64}
RecognizedMagics == NarrowMagics \cup WideMagics

\* 28 for a narrow magic, 32 for a wide one
FixedSize(M) == IF M \in NarrowMagics THEN 28 ELSE 32
ExpectedContainer(M) == IF M \in NarrowMagics THEN "Little" ELSE "Big"

Decoded == res.kind # "none"
MagicAt == peek(bytes, offset)
Remaining == Len(bytes) - offset

\* C1 as stated: whenever the magic at the offset is one of the four and the
\* bytes from the offset number at least the matching fixed size (28 narrow,
\* 32 wide), decode succeeds and container() is narrow for a narrow magic and
\* wide for a wide one.
C1_MatchingSizeSuffices ==
    \A M \in RecognizedMagics :
       (Decoded /\ MagicAt.ok /\ MagicAt.magic = M /\ Remaining >= FixedSize(M))
          => /\ res.kind = "Ok"
             /\ container(res.header) = ExpectedContainer(M)

\* C1 amended: whenever the magic at the offset is one of the four and the
\* bytes from the offset number at least 32, the larger fixed size, decode
\* succeeds and container() is narrow for a narrow magic and wide for a wide
\* one.
C1_LargerSizeSuffices ==
    \A M \in RecognizedMagics :
       (Decoded /\ MagicAt.ok /\ MagicAt.magic = M /\ Remaining >= 32)
          => /\ res.kind = "Ok"
             /\ container(res.header) = ExpectedContainer(M)

\* a wide byte-swapped magic decoded from exactly 32 remaining bytes
C1_Witness ==
    /\ Decoded /\ MagicAt.ok /\ MagicAt.magic = MH_CIGAM_64
    /\ Remaining = 32 /\ offset > 0
    /\ res.kind = "Ok" /\ container(res.header) = "Big"

\* C2: whenever fewer than 32 bytes remain from the offset, decode fails with
\* Malformed, and does so without having inspected the magic.
C2_ShortIsMalformed ==
    (Decoded /\ Remaining < 32) => (res.kind = "Malformed" /\ ~res.inspected)

\* C3: whenever the buffer passes the size check and the magic at the offset
\* is none of the four, decode fails with BadMagic carrying that magic
\* zero-extended to 64 bits, and no header is produced.
C3_BadMagic ==
    (Decoded /\ Len(bytes) >= 32 /\ MagicAt.ok
       /\ MagicAt.magic \notin RecognizedMagics)
      => /\ res.kind = "BadMagic"
         /\ res.magic64 = <<0, 0, 0, 0>> \o MagicAt.magic
         /\ res.header = NoHeader /\ hdr = NoHeader

\* an unrecognized magic with its top bit set, refused at a nonzero offset
C3_Witness ==
    /\ Decoded /\ Len(bytes) >= 32 /\ offset > 0 /\ MagicAt.ok
    /\ MagicAt.magic \notin RecognizedMagics /\ MagicAt.magic[1] >= 128
    /\ res.kind = "BadMagic"

\* C4: for every decoded header, is_little_endian(), and the endianness of
\* the Context that ctx() returns, is the byte order decode derived from the
\* peeked magic and read the fields with.
C4_EndiannessAgrees ==
    res.kind = "Ok"
      => /\ is_little_endian(res.header) = (res.le = "LE")
         /\ (ctxres.kind = "Ok" => ctxres.endianness = res.le)

\* C5: ctx() returns a Context exactly when the stored magic is one of the
\* four recognized values, and an error otherwise.
C5_CtxFailsOnJunk ==
    ctxres.kind # "none" => (ctxres.kind = "Ok" <=> hdr.magic \in RecognizedMagics)

\* C9: the Context derived from a recognized magic gives size_with 28 for a
\* narrow magic and 32 for a wide one, and size() of a decoded header is the
\* number of bytes decode read for the variant.
C9_SizeMatchesVariant ==
    /\ \A M \in RecognizedMagics :
          size_with(ctx([DefaultHeader EXCEPT !.magic = M]).container)
             = FixedSize(M)
    /\ res.kind = "Ok"
         => /\ size_with(res.container) = FixedSize(res.peeked)
            /\ size(res.header) = res.nread
            /\ size(res.header) = FixedSize(res.peeked)
    /\ (res.kind = "Ok" /\ ctxres.kind = "Ok")
         => size_with(ctxres.container) = FixedSize(res.peeked)

\* ctx() called on a header decoded from a byte-swapped wide magic
C9_Witness ==
    /\ res.kind = "Ok" /\ res.peeked = MH_CIGAM_64 /\ ctxres.kind = "Ok"
    /\ size(res.header) = 32 /\ res.nread = 32

(***************************************************************************)
(* Properties of the string table, checked under SpecStrtab.               *)
(***************************************************************************)
IsText(s) == \A k \in DOMAIN s : s[k] \in 0..127

GetCalled == goff >= 0

\* the 1-based positions of the delimiters at or after 0-based offset o
DelimsFrom(o) == {q \in (o + 1)..Len(sbytes) : sbytes[q] = delim}
FirstDelimFrom(o) == CHOOSE q \in DelimsFrom(o) : \A r \in DelimsFrom(o) : q <= r

\* C6 as stated: get(offset) fails whenever no delimiter occurs between the
\* offset and the end of the region; when one occurs and the bytes before it
\* are text, it returns the bytes from the offset up to, not including, the
\* first delimiter.
C6_FailsWithoutDelimiter ==
    GetCalled =>
      /\ DelimsFrom(goff) = {} => ~gres.ok
      /\ (DelimsFrom(goff) # {}
            /\ IsText(SubSeq(sbytes, goff + 1, FirstDelimFrom(goff) - 1)))
           => /\ gres.ok
              /\ gres.str = SubSeq(sbytes, goff + 1, FirstDelimFrom(goff) - 1)

\* C6 amended: get(offset) fails when the offset is at or past the end of the
\* region or the bytes it would return are not text; otherwise it returns the
\* bytes from the offset up to, not including, the first delimiter at or after
\* the offset, and up to the end of the region when no delimiter occurs.
C6_ReturnsToDelimiterOrEnd ==
    GetCalled =>
      LET last == IF DelimsFrom(goff) = {} THEN Len(sbytes)
                  ELSE FirstDelimFrom(goff) - 1
          seg == SubSeq(sbytes, goff + 1, last)
      IN  IF goff < Len(sbytes) /\ IsText(seg)
          THEN gres.ok /\ gres.str = seg
          ELSE ~gres.ok

\* "busta", the unterminated last entry of the first test's region
C6_Witness ==
    /\ sbytes = Test_no_final_null /\ delim = 0 /\ goff = 16
    /\ DelimsFrom(goff) = {}
    /\ gres.ok /\ gres.str = <<98, 117, 115, 116, 97>>

\* the 0-based offsets at which an entry starts: 0 and the position after
\* every delimiter, as far as they lie inside the region
SegStarts == {s \in 0..(Len(sbytes) - 1) : s = 0 \/ sbytes[s] = delim}
SegStart(k) == CHOOSE s \in SegStarts : Cardinality({t \in SegStarts : t < s}) = k - 1
SegOf(s) ==
    SubSeq(sbytes, s + 1,
           IF DelimsFrom(s) = {} THEN Len(sbytes) ELSE FirstDelimFrom(s) - 1)
Segments == [k \in 1..Cardinality(SegStarts) |-> SegOf(SegStart(k))]

\* C7: over a region of text, to_vec returns, in order, exactly the segments
\* between the delimiters: an empty first entry when the region starts with
\* the delimiter, an empty entry between adjacent delimiters, no entry after
\* a final delimiter, and the final segment even when it is unterminated.
C7_ToVecSplits ==
    (tv_pc \in {"done", "err"} /\ IsText(sbytes))
      => /\ tv_pc = "done" /\ tv_res.kind = "Ok"
         /\ tv_res.strings = Segments

\* the region of to_vec_final_null: a leading and a final delimiter
C7_Witness ==
    /\ sbytes = Test_final_null /\ delim = 0 /\ tv_pc = "done"
    /\ tv_res.strings = <<<<>>, <<112, 114, 105, 110, 116, 102>>,
                          <<109, 101, 109, 109, 111, 118, 101>>,
                          <<98, 117, 115, 116, 97>>>>

\* C8: get with an offset at or past the length of the region returns an
\* error and reads nothing; with a smaller offset it reads only positions
\* offset..length-1.  Over "printf\0memmove", offset 0 gives "printf" and
\* offset 7 gives "memmove".
C8_GetStaysInside ==
    GetCalled =>
      /\ goff >= Len(sbytes) => (~gres.ok /\ gres.reads = {})
      /\ goff < Len(sbytes) => gres.reads \subseteq goff..(Len(sbytes) - 1)
      /\ (sbytes = Printf_memmove /\ delim = 0 /\ goff = 0)
           => (gres.ok /\ gres.str = <<112, 114, 105, 110, 116, 102>>)
      /\ (sbytes = Printf_memmove /\ delim = 0 /\ goff = 7)
           => (gres.ok /\ gres.str = <<109, 101, 109, 109, 111, 118, 101>>)

\* "memmove" read at offset 7 of "printf\0memmove"
C8_Witness ==
    /\ sbytes = Printf_memmove /\ delim = 0 /\ goff = 7
    /\ gres.ok /\ gres.str = <<109, 101, 109, 109, 111, 118, 101>>
    /\ gres.reads = 7..13

\* the loop ran at most len times, the vector holds at most len entries, a
\* failed to_vec holds no partial vector, and over an empty region to_vec
\* returns the empty vector without a call of get
C11_Bounded ==
    /\ tv_iters <= Len(sbytes)
    /\ Len(tv_strings) <= Len(sbytes)
    /\ tv_pc = "done" => (tv_res.kind = "Ok" /\ Len(tv_res.strings) <= Len(sbytes))
    /\ tv_pc = "err" => (tv_res.kind = "Err" /\ tv_res.strings = <<>>
                          /\ tv_strings = <<>>)
    /\ (sbytes = <<>> /\ tv_pc = "done")
         => (tv_res.strings = <<>> /\ tv_iters = 0)

\* one loop iteration either fails, and to_vec returns the error, or pushes
\* one string and moves i up by that string's length plus one
C11_Progress ==
    tv_iters' # tv_iters
      => /\ tv_iters' = tv_iters + 1
         /\ \/ tv_pc' = "err" /\ tv_res'.kind = "Err"
            \/ /\ tv_pc' = "loop"
               /\ Len(tv_strings') = Len(tv_strings) + 1
               /\ tv_i' = tv_i + Len(tv_strings'[Len(tv_strings')]) + 1
               /\ tv_i' > tv_i

\* C11: to_vec always terminates: every loop iteration either fails, and
\* to_vec returns the error with no partial vector, or increases i by the
\* decoded string's length plus one; the loop runs at most len times and the
\* entries never outnumber len; an empty region gives the empty vector
\* without a call of get.
C11_ToVecTerminates ==
    /\ []C11_Bounded
    /\ [][C11_Progress]_vars
    /\ (tv_pc = "loop") ~> (tv_pc \in {"done", "err"})

\* to_vec returned after as many iterations as the region has bytes
C11_Witness ==
    /\ tv_pc = "done" /\ Len(sbytes) >= 2
    /\ tv_iters = Len(sbytes) /\ Len(tv_res.strings) = Len(sbytes)

(***************************************************************************)
(* Properties of flag_to_str, checked under SpecFlags.                     *)
(***************************************************************************)
KnownFlags ==
    {<<MH_NOUNDEFS, "MH_NOUNDEFS">>, <<MH_INCRLINK, "MH_INCRLINK">>,
     <<MH_DYLDLINK, "MH_DYLDLINK">>, <<MH_BINDATLOAD, "MH_BINDATLOAD">>,
     <<MH_PREBOUND, "MH_PREBOUND">>, <<MH_SPLIT_SEGS, "MH_SPLIT_SEGS">>,
     <<MH_LAZY_INIT, "MH_LAZY_INIT">>, <<MH_TWOLEVEL, "MH_TWOLEVEL">>,
     <<MH_FORCE_FLAT, "MH_FORCE_FLAT">>, <<MH_NOMULTIDEFS, "MH_NOMULTIDEFS">>,
     <<MH_NOFIXPREBINDING, "MH_NOFIXPREBINDING">>,
     <<MH_PREBINDABLE, "MH_PREBINDABLE">>,
     <<MH_ALLMODSBOUND, "MH_ALLMODSBOUND">>,
     <<MH_SUBSECTIONS_VIA_SYMBOLS, "MH_SUBSECTIONS_VIA_SYMBOLS">>,
     <<MH_CANONICAL, "MH_CANONICAL">>, <<MH_WEAK_DEFINES, "MH_WEAK_DEFINES">>,
     <<MH_BINDS_TO_WEAK, "MH_BINDS_TO_WEAK">>,
     <<MH_ALLOW_STACK_EXECUTION, "MH_ALLOW_STACK_EXECUTION">>,
     <<MH_ROOT_SAFE, "MH_ROOT_SAFE">>, <<MH_SETUID_SAFE, "MH_SETUID_SAFE">>,
     <<MH_NO_REEXPORTED_DYLIBS, "MH_NO_REEXPORTED_DYLIBS">>,
     <<MH_PIE, "MH_PIE">>,
     <<MH_DEAD_STRIPPABLE_DYLIB, "MH_DEAD_STRIPPABLE_DYLIB">>,
     <<MH_HAS_TLV_DESCRIPTORS, "MH_HAS_TLV_DESCRIPTORS">>,
     <<MH_NO_HEAP_EXECUTION, "MH_NO_HEAP_EXECUTION">>,
     <<MH_APP_EXTENSION_SAFE, "MH_APP_EXTENSION_SAFE">>}

\* C10: flag_to_str returns the constant's identifier, with no extra
\* character, for each of the 26 known single-bit flags, the names being
\* pairwise distinct, and the one unknown-flag marker for every other value.
C10_FlagNames ==
    /\ Cardinality(KnownFlags) = 26
    /\ \A p, q \in KnownFlags :
          p[1] # q[1] => flag_to_str(p[1]) # flag_to_str(q[1])
    /\ flagstr # NoStr
         => IF \E p \in KnownFlags : p[1] = flag
            THEN \E p \in KnownFlags : p[1] = flag /\ flagstr = p[2]
            ELSE flagstr = "UNKNOWN FLAG"

====
